---- MODULE Spec2Model ----
(***************************************************************************)
(* Model of clapless: offset detection (internal/sync, correlation file),  *)
(* padding calculation (internal/sync/offset.go), overlap-constrained      *)
(* fine-tuning (internal/sync/fine_tuner.go) and the parallel coarse       *)
(* detection of internal/cli/runner.go.                                    *)
(*                                                                         *)
(* Samples are integers (PCM steps).  The float64 fields that are a plain  *)
(* quotient of a modelled integer (the *Seconds fields) are not carried.   *)
(* Correlation values are kept as exact integers scaled by a positive      *)
(* factor (see normalize), so the position of the maximum is the one of    *)
(* exact arithmetic; float64 rounding is not modelled.                     *)
(* Go's int is 64 bits wide; all values here stay far below that width.    *)
(***************************************************************************)
EXTENDS Integers, Sequences, FiniteSets, TLC

VARIABLES
    mixed,        \* reference signal, mono ([]float64)
    localFiles,   \* []*audio.WAVData: records [Data, Channels]
    sampleRate,   \* sample rate shared by all files
    targetSec,    \* targetDuration handed to selectFinetuneSegment, in seconds
    minSec,       \* minDuration handed to selectFinetuneSegment, in seconds
    filePaths,    \* []string handed to CalculatePadding
    results,      \* []*OffsetResult handed to CalculatePadding
    fileOffsets,  \* []*FileOffset (<<>> while nil)
    pc,           \* position of the caller in the pipeline
    err,          \* error value of the last call ("" is nil)
    ret,          \* first return value of FinetuneOffsets: "unset", "nil", "fileOffsets"
    overlap,      \* local of FinetuneOffsets: *OverlapRegion
    segStart,     \* local of FinetuneOffsets
    segEnd,       \* local of FinetuneOffsets
    mixedSegment, \* local of FinetuneOffsets
    idx,          \* loop index i of FinetuneOffsets step 4
    fineResults,  \* per iteration: the fineResult returned by DetectOffset
    mixedWav,     \* the reference file (*audio.WAVData)
    cfgDownsampleFactor, \* Config.DownsampleFactor
    launched,     \* detectOffsetsParallel: goroutines started so far
    wstate,       \* per goroutine: "running", "sent", "done"
    computed,     \* per goroutine: its locals offset and err
    wg,           \* sync.WaitGroup counter
    chan,         \* the buffered channel results
    chanClosed,   \* close(results) has run
    sendOrder,    \* history: the goroutines in the order of their sends
    offsetResults, \* local slice of detectOffsetsParallel
    written,      \* Run: the sample data handed to audio.WriteWAV, per file
    detection     \* a direct call of DetectOffset: what it returned

vars == <<mixed, localFiles, sampleRate, targetSec, minSec, filePaths, results, fileOffsets, pc,
          err, ret, overlap, segStart, segEnd, mixedSegment, idx, fineResults,
          mixedWav, cfgDownsampleFactor, launched, wstate, computed, wg, chan,
          chanClosed, sendOrder, offsetResults, written, detection>>

(***************************************************************************)
(* Bounds                                                                  *)
(***************************************************************************)
MaxTracks == 3

(***************************************************************************)
(* Helpers                                                                 *)
(***************************************************************************)
SetMax(S) == CHOOSE x \in S : \A y \in S : y <= x

SetMin(S) == CHOOSE x \in S : \A y \in S : x <= y

\* The sum of s[lo..hi]; the range is halved so that the evaluation depth is
\* logarithmic (the sum itself is the one the source's loops accumulate).
RECURSIVE SumRange(_, _, _)
SumRange(s, lo, hi) ==
    IF lo > hi THEN 0
    ELSE IF lo = hi THEN s[lo]
    ELSE LET mid == (lo + hi) \div 2
         IN  SumRange(s, lo, mid) + SumRange(s, mid + 1, hi)

SeqSum(s) == SumRange(s, 1, Len(s))

(***************************************************************************)
(* internal/audio                                                          *)
(***************************************************************************)
\* ToMono: channels == 1 returns the data; otherwise the per-frame average.
\* The inputs of this model have frame sums divisible by the channel count.
ToMono(data, channels) ==
    IF channels = 1 THEN data
    ELSE [i \in 1..(Len(data) \div channels) |->
            SeqSum(SubSeq(data, (i - 1) * channels + 1, i * channels)) \div channels]

(***************************************************************************)
(* Correlation (part_001)                                                  *)
(***************************************************************************)
\* downsample: every factor-th sample from index 0; factor <= 1 is identity.
downsample(data, factor) ==
    IF factor <= 1 THEN data
    ELSE [i \in 1..((Len(data) + factor - 1) \div factor) |-> data[(i - 1) * factor + 1]]

\* normalize: (v - mean) / stdDev, stdDev replaced by 1 when it is 0.
\* Carried as len * (v - mean) = len*v - sum, i.e. the source's value times
\* the positive factor len * stdDev (len when stdDev = 0, where every entry
\* is 0 anyway).
normalize(data) ==
    IF Len(data) = 0 THEN data
    ELSE LET s == SeqSum(data)
         IN  [i \in 1..Len(data) |-> Len(data) * data[i] - s]

RECURSIVE PowerFrom(_, _)
PowerFrom(power, n) == IF power < n THEN PowerFrom(power * 2, n) ELSE power

nextPowerOfTwo(n) == PowerFrom(1, n)

padToSize(data, size) ==
    IF Len(data) >= size THEN data
    ELSE [i \in 1..size |-> IF i <= Len(data) THEN data[i] ELSE 0]

\* Variant: the conjugate is taken of the other transform, FFT2 * conj(FFT1).
LagSum_OtherConjugate(signal1, signal2, fftSize, k) ==
    LET p2 == padToSize(signal2, fftSize)
    IN  SeqSum([m \in 1..Len(signal1) |-> p2[((m - 1 + k) % fftSize) + 1] * signal1[m]])

\* One lag of IFFT(FFT(p1) * conj(FFT(p2))) / fftSize for real inputs of
\* length fftSize: the circular correlation sum_m p1[(m+k) mod fftSize] * p2[m].
\* p2 is zero beyond len2, so the sum runs over m < len2.
LagSum(signal1, signal2, fftSize, k) ==
    LET p1 == padToSize(signal1, fftSize)
    IN  SeqSum([m \in 1..Len(signal2) |-> p1[((m - 1 + k) % fftSize) + 1] * signal2[m]])

crossCorrelateFFT(signal1, signal2) ==
    IF Len(signal1) = 0 \/ Len(signal2) = 0 THEN <<0>>
    ELSE LET n == Len(signal1) + Len(signal2) - 1
             fftSize == nextPowerOfTwo(n)
         IN  [k \in 1..n |-> LagSum(signal1, signal2, fftSize, k - 1)]

\* findMaxPeak: index (0-based) and value of the first maximum: the loop
\* replaces the running maximum only by a strictly greater value.  The range
\* is halved; the right half wins only with a strictly greater value.
RECURSIVE PeakRange(_, _, _)
PeakRange(correlation, lo, hi) ==
    IF lo = hi THEN [idx |-> lo - 1, val |-> correlation[lo]]
    ELSE LET mid == (lo + hi) \div 2
             l == PeakRange(correlation, lo, mid)
             r == PeakRange(correlation, mid + 1, hi)
         IN  IF r.val > l.val THEN r ELSE l

\* Variant: the loop compares with >=, so the last maximum wins.
findMaxPeak_Last(correlation) ==
    IF Len(correlation) = 0 THEN [idx |-> 0, val |-> 0]
    ELSE LET first == PeakRange(correlation, 1, Len(correlation))
             last == SetMax({ i \in 1..Len(correlation) : correlation[i] = first.val })
         IN  [idx |-> last - 1, val |-> first.val]

findMaxPeak(correlation) ==
    IF Len(correlation) = 0 THEN [idx |-> 0, val |-> 0]
    ELSE PeakRange(correlation, 1, Len(correlation))

\* Len(data)^2 times the variance normalize computes (lines 74-80).
ScaledVariance(data) ==
    Len(data) * SeqSum([i \in 1..Len(data) |-> data[i] * data[i]])
        - SeqSum(data) * SeqSum(data)

\* The square of the factor by which normalize above exceeds the source's
\* values: (len * stdDev)^2, with stdDev replaced by 1 when it is 0.
NormScaleSq(data) ==
    IF ScaledVariance(data) = 0 THEN Len(data) * Len(data) ELSE ScaledVariance(data)

\* Variant: a peak in the upper part of the sequence is read as a negative
\* lag, offset = peakIdx - len(correlation).
DetectOffset_SignedLag(mixedData, localData, rate, downsampleFactor) ==
    IF Len(mixedData) = 0
    THEN [err |-> "mixed audio data is empty", OffsetSamples |-> 0,
          PeakIndex |-> 0, PeakValue |-> 0, MixedScaleSq |-> 1, LocalScaleSq |-> 1,
          LocalLen |-> 0]
    ELSE IF Len(localData) = 0
    THEN [err |-> "local audio data is empty", OffsetSamples |-> 0,
          PeakIndex |-> 0, PeakValue |-> 0, MixedScaleSq |-> 1, LocalScaleSq |-> 1,
          LocalLen |-> 0]
    ELSE LET mixedCoarse == downsample(mixedData, downsampleFactor)
             localCoarse == downsample(localData, downsampleFactor)
             mixedNorm == normalize(mixedCoarse)
             localNorm == normalize(localCoarse)
             correlation == crossCorrelateFFT(mixedNorm, localNorm)
             peak == findMaxPeak(correlation)
             offset == IF peak.idx >= Len(mixedNorm)
                       THEN peak.idx - Len(correlation) ELSE peak.idx
         IN  [err |-> "", OffsetSamples |-> offset * downsampleFactor,
              PeakIndex |-> peak.idx, PeakValue |-> peak.val,
              MixedScaleSq |-> NormScaleSq(mixedCoarse),
              LocalScaleSq |-> NormScaleSq(localCoarse),
              LocalLen |-> Len(localNorm)]

\* DetectOffset; segmentDuration is not used.  PeakIndex is peakIdx;
\* PeakValue is peakValue times sqrt(MixedScaleSq * LocalScaleSq), so the
\* source's confidence is PeakValue / (sqrt(MixedScaleSq * LocalScaleSq) *
\* LocalLen).
DetectOffset(mixedData, localData, rate, downsampleFactor) ==
    IF Len(mixedData) = 0
    THEN [err |-> "mixed audio data is empty", OffsetSamples |-> 0,
          PeakIndex |-> 0, PeakValue |-> 0, MixedScaleSq |-> 1, LocalScaleSq |-> 1,
     LocalLen |-> 0]
    ELSE IF Len(localData) = 0
    THEN [err |-> "local audio data is empty", OffsetSamples |-> 0,
          PeakIndex |-> 0, PeakValue |-> 0, MixedScaleSq |-> 1, LocalScaleSq |-> 1,
          LocalLen |-> 0]
    ELSE LET mixedCoarse == downsample(mixedData, downsampleFactor)
             localCoarse == downsample(localData, downsampleFactor)
             mixedNorm == normalize(mixedCoarse)
             localNorm == normalize(localCoarse)
             peak == findMaxPeak(crossCorrelateFFT(mixedNorm, localNorm))
         IN  [err |-> "", OffsetSamples |-> peak.idx * downsampleFactor,
              PeakIndex |-> peak.idx, PeakValue |-> peak.val,
              MixedScaleSq |-> NormScaleSq(mixedCoarse),
              LocalScaleSq |-> NormScaleSq(localCoarse),
              LocalLen |-> Len(localNorm)]

\* No call of DetectOffset has returned.
NoDetection ==
    [called |-> FALSE, err |-> "", OffsetSamples |-> 0,
     PeakIndex |-> 0, PeakValue |-> 0, MixedScaleSq |-> 1, LocalScaleSq |-> 1,
          LocalLen |-> 0]

(***************************************************************************)
(* internal/audio: GenerateSilence, PrependSilence                         *)
(***************************************************************************)
GenerateSilence(numSamples) == [i \in 1..numSamples |-> 0]

PrependSilence(data, silenceSamples) ==
    IF silenceSamples <= 0 THEN data
    ELSE GenerateSilence(silenceSamples) \o data

(***************************************************************************)
(* internal/sync/offset.go                                                 *)
(***************************************************************************)
\* &OffsetResult{OffsetSamples: n} and a nil *OffsetResult.
OffsetResultOf(n) == [IsNil |-> FALSE, OffsetSamples |-> n]

NilOffsetResult == [IsNil |-> TRUE, OffsetSamples |-> 0]

\* A nil *FinetuneResult.
NilFinetuneResult ==
    [IsNil |-> TRUE, FineAdjustmentSamples |-> 0,
     SegmentUsed |-> [StartSample |-> 0, EndSample |-> 0],
     Skipped |-> FALSE, SkipReason |-> ""]

\* &FinetuneResult{Skipped: true, SkipReason: reason}
SkippedResult(reason) ==
    [IsNil |-> FALSE, FineAdjustmentSamples |-> 0,
     SegmentUsed |-> [StartSample |-> 0, EndSample |-> 0],
     Skipped |-> TRUE, SkipReason |-> reason]

\* The loop that finds the minimum of field f, starting from element 1.
RECURSIVE MinFrom(_, _, _, _)
MinFrom(s, f, i, minOffset) ==
    IF i > Len(s) THEN minOffset
    ELSE MinFrom(s, f, i + 1, IF s[i][f] < minOffset THEN s[i][f] ELSE minOffset)

\* Variant: the loop keeps the greater offset, so the reference is the latest file.
RECURSIVE MaxFrom(_, _, _, _)
MaxFrom(s, f, i, maxOffset) ==
    IF i > Len(s) THEN maxOffset
    ELSE MaxFrom(s, f, i + 1, IF s[i][f] > maxOffset THEN s[i][f] ELSE maxOffset)

CalculatePadding_Latest(res, paths, rate) ==
    IF Len(res) # Len(paths)
    THEN [err |-> "mismatch between results and file paths", fileOffsets |-> <<>>]
    ELSE IF Len(res) = 0
    THEN [err |-> "no offset results provided", fileOffsets |-> <<>>]
    ELSE LET minOffset == MaxFrom(res, "OffsetSamples", 1, res[1].OffsetSamples)
         IN  [err |-> "",
              fileOffsets |->
                [i \in 1..Len(res) |->
                   [Path |-> paths[i],
                    OffsetSamples |-> res[i].OffsetSamples,
                    FineAdjustmentSamples |-> 0,
                    FinalOffsetSamples |-> 0,
                    PaddingSamples |-> res[i].OffsetSamples - minOffset,
                    IsEarliest |-> (res[i].OffsetSamples = minOffset),
                    FinetuneResult |-> NilFinetuneResult]]]

CalculatePadding(res, paths, rate) ==
    IF Len(res) # Len(paths)
    THEN [err |-> "mismatch between results and file paths", fileOffsets |-> <<>>]
    ELSE IF Len(res) = 0
    THEN [err |-> "no offset results provided", fileOffsets |-> <<>>]
    ELSE LET minOffset == MinFrom(res, "OffsetSamples", 1, res[1].OffsetSamples)
         IN  [err |-> "",
              fileOffsets |->
                [i \in 1..Len(res) |->
                   [Path |-> paths[i],
                    OffsetSamples |-> res[i].OffsetSamples,
                    FineAdjustmentSamples |-> 0,
                    FinalOffsetSamples |-> 0,
                    PaddingSamples |-> res[i].OffsetSamples - minOffset,
                    IsEarliest |-> (res[i].OffsetSamples = minOffset),
                    FinetuneResult |-> NilFinetuneResult]]]

(***************************************************************************)
(* internal/sync/fine_tuner.go                                             *)
(***************************************************************************)
\* Go's integer division truncates toward zero.
GoDiv(a, b) ==
    IF a >= 0 THEN a \div b ELSE -((-a) \div b)

\* Variant: an end past the data is cut back to the end of the data.
extractSegment_Clamp(data, startSample, endSample) ==
    IF startSample < 0 \/ startSample >= endSample
    THEN [err |-> "invalid segment bounds", segment |-> <<>>]
    ELSE [err |-> "",
          segment |-> SubSeq(data, startSample + 1,
                             IF endSample > Len(data) THEN Len(data) ELSE endSample)]

\* extractSegment (lines 27-36).
extractSegment(data, startSample, endSample) ==
    IF startSample < 0 \/ endSample > Len(data) \/ startSample >= endSample
    THEN [err |-> "invalid segment bounds", segment |-> <<>>]
    ELSE [err |-> "", segment |-> SubSeq(data, startSample + 1, endSample)]

\* Variant: the end of the region follows the latest end (a union, not an
\* intersection).
RECURSIVE UnionFrom(_, _, _, _, _)
UnionFrom(files, offs, i, overlapStart, overlapEnd) ==
    IF i > Len(files)
    THEN [StartSample |-> overlapStart, EndSample |-> overlapEnd]
    ELSE LET fileStart == offs[i].OffsetSamples
             fileEnd == fileStart + GoDiv(Len(files[i].Data), files[i].Channels)
         IN  IF i = 1
             THEN UnionFrom(files, offs, i + 1, fileStart, fileEnd)
             ELSE UnionFrom(files, offs, i + 1,
                            IF fileStart > overlapStart THEN fileStart ELSE overlapStart,
                            IF fileEnd > overlapEnd THEN fileEnd ELSE overlapEnd)

findOverlappingRegion_Union(files, offs, rate) ==
    IF Len(files) = 0
    THEN [err |-> "no local files provided", panic |-> FALSE, StartSample |-> 0, EndSample |-> 0]
    ELSE LET r == UnionFrom(files, offs, 1, 0, 0)
         IN  IF r.EndSample <= r.StartSample
             THEN [err |-> "no overlapping region found after coarse alignment",
                   panic |-> FALSE, StartSample |-> 0, EndSample |-> 0]
             ELSE [err |-> "", panic |-> FALSE,
                   StartSample |-> r.StartSample, EndSample |-> r.EndSample]

\* The loop of findOverlappingRegion over localFiles[i..]; an index past the
\* end of fileOffsets is a run-time panic.
RECURSIVE OverlapFrom(_, _, _, _, _)
OverlapFrom(files, offs, i, overlapStart, overlapEnd) ==
    IF i > Len(files)
    THEN [panic |-> FALSE, StartSample |-> overlapStart, EndSample |-> overlapEnd]
    ELSE IF i > Len(offs)
    THEN [panic |-> TRUE, StartSample |-> overlapStart, EndSample |-> overlapEnd]
    ELSE LET monoSamples == GoDiv(Len(files[i].Data), files[i].Channels)
             fileStart == offs[i].OffsetSamples
             fileEnd == fileStart + monoSamples
         IN  IF i = 1
             THEN OverlapFrom(files, offs, i + 1, fileStart, fileEnd)
             ELSE OverlapFrom(files, offs, i + 1,
                              IF fileStart > overlapStart THEN fileStart ELSE overlapStart,
                              IF fileEnd < overlapEnd THEN fileEnd ELSE overlapEnd)

findOverlappingRegion(files, offs, rate) ==
    IF Len(files) = 0
    THEN [err |-> "no local files provided", panic |-> FALSE, StartSample |-> 0, EndSample |-> 0]
    ELSE LET r == OverlapFrom(files, offs, 1, 0, 0)
         IN  IF r.panic
             THEN [err |-> "", panic |-> TRUE, StartSample |-> 0, EndSample |-> 0]
             ELSE IF r.EndSample <= r.StartSample
             THEN [err |-> "no overlapping region found after coarse alignment",
                   panic |-> FALSE, StartSample |-> 0, EndSample |-> 0]
             ELSE [err |-> "", panic |-> FALSE,
                   StartSample |-> r.StartSample, EndSample |-> r.EndSample]

\* Variant: the minimum is compared in seconds against a length in samples.
selectFinetuneSegment_UnscaledMin(ov, targetDuration, minDuration, rate) ==
    LET targetSamples == targetDuration * rate
        minSamples == minDuration
        overlapSamples == ov.EndSample - ov.StartSample
    IN  IF overlapSamples < minSamples
        THEN [err |-> "overlap duration is less than minimum", startSample |-> 0, endSample |-> 0]
        ELSE IF overlapSamples >= targetSamples
        THEN LET center == ov.StartSample + GoDiv(overlapSamples, 2)
                 halfTarget == GoDiv(targetSamples, 2)
             IN  [err |-> "", startSample |-> center - halfTarget,
                  endSample |-> center - halfTarget + targetSamples]
        ELSE [err |-> "", startSample |-> ov.StartSample, endSample |-> ov.EndSample]

\* Variant: the target window is taken from the start of the overlap.
selectFinetuneSegment_FromStart(ov, targetDuration, minDuration, rate) ==
    LET targetSamples == targetDuration * rate
        minSamples == minDuration * rate
        overlapSamples == ov.EndSample - ov.StartSample
    IN  IF overlapSamples < minSamples
        THEN [err |-> "overlap duration is less than minimum", startSample |-> 0, endSample |-> 0]
        ELSE IF overlapSamples >= targetSamples
        THEN [err |-> "", startSample |-> ov.StartSample,
              endSample |-> ov.StartSample + targetSamples]
        ELSE [err |-> "", startSample |-> ov.StartSample, endSample |-> ov.EndSample]

\* Variant: the target window starts at the centre of the overlap.
selectFinetuneSegment_FromCentre(ov, targetDuration, minDuration, rate) ==
    LET targetSamples == targetDuration * rate
        minSamples == minDuration * rate
        overlapSamples == ov.EndSample - ov.StartSample
    IN  IF overlapSamples < minSamples
        THEN [err |-> "overlap duration is less than minimum", startSample |-> 0, endSample |-> 0]
        ELSE IF overlapSamples >= targetSamples
        THEN LET center == ov.StartSample + GoDiv(overlapSamples, 2)
             IN  [err |-> "", startSample |-> center,
                  endSample |-> center + targetSamples]
        ELSE [err |-> "", startSample |-> ov.StartSample, endSample |-> ov.EndSample]

\* targetDuration and minDuration are whole seconds (60.0 and 30.0 in the
\* call of FinetuneOffsets), so int(duration * float64(sampleRate)) is the exact product.
selectFinetuneSegment(ov, targetDuration, minDuration, rate) ==
    LET targetSamples == targetDuration * rate
        minSamples == minDuration * rate
        overlapSamples == ov.EndSample - ov.StartSample
    IN  IF overlapSamples < minSamples
        THEN [err |-> "overlap duration is less than minimum", startSample |-> 0, endSample |-> 0]
        ELSE IF overlapSamples >= targetSamples
        THEN LET center == ov.StartSample + GoDiv(overlapSamples, 2)
                 halfTarget == GoDiv(targetSamples, 2)
             IN  [err |-> "", startSample |-> center - halfTarget,
                  endSample |-> center - halfTarget + targetSamples]
        ELSE [err |-> "", startSample |-> ov.StartSample, endSample |-> ov.EndSample]

\* Variant: the earliest file is looked up by coarse offset.
recalculatePadding_Coarse(offs, rate) ==
    IF Len(offs) = 0
    THEN [err |-> "no file offsets provided", fileOffsets |-> <<>>]
    ELSE LET minOffset == MinFrom(offs, "OffsetSamples", 1, offs[1].OffsetSamples)
         IN  [err |-> "",
              fileOffsets |->
                [i \in 1..Len(offs) |->
                   [offs[i] EXCEPT
                      !.PaddingSamples = offs[i].OffsetSamples - minOffset,
                      !.IsEarliest = (offs[i].OffsetSamples = minOffset)]]]

\* Variant: the padding of the coarse pass is kept.
recalculatePadding_Keep(offs, rate) ==
    IF Len(offs) = 0
    THEN [err |-> "no file offsets provided", fileOffsets |-> <<>>]
    ELSE [err |-> "", fileOffsets |-> offs]

recalculatePadding(offs, rate) ==
    IF Len(offs) = 0
    THEN [err |-> "no file offsets provided", fileOffsets |-> <<>>]
    ELSE LET minOffset == MinFrom(offs, "FinalOffsetSamples", 1, offs[1].FinalOffsetSamples)
         IN  [err |-> "",
              fileOffsets |->
                [i \in 1..Len(offs) |->
                   [offs[i] EXCEPT
                      !.PaddingSamples = offs[i].FinalOffsetSamples - minOffset,
                      !.IsEarliest = (offs[i].FinalOffsetSamples = minOffset)]]]

\* A track that keeps its coarse offset: the three skip branches of step 4.
SkipTrack(fo, reason) ==
    [fo EXCEPT !.FinetuneResult = SkippedResult(reason),
               !.FinalOffsetSamples = fo.OffsetSamples]

\* Variant: the raw offset is stored without inverting its sign.
MergeFine_SameSign(fo, fineResult, sStart, sEnd) ==
    LET adj == fineResult.OffsetSamples
    IN  [fo EXCEPT !.FinetuneResult =
                      [IsNil |-> FALSE, FineAdjustmentSamples |-> adj,
                       SegmentUsed |-> [StartSample |-> sStart, EndSample |-> sEnd],
                       Skipped |-> FALSE, SkipReason |-> ""],
                   !.FineAdjustmentSamples = adj,
                   !.FinalOffsetSamples = fo.OffsetSamples + adj]

\* Variant: the adjustment is stored but the final offset stays unset.
MergeFine_NoFinal(fo, fineResult, sStart, sEnd) ==
    LET adj == -fineResult.OffsetSamples
    IN  [fo EXCEPT !.FinetuneResult =
                      [IsNil |-> FALSE, FineAdjustmentSamples |-> adj,
                       SegmentUsed |-> [StartSample |-> sStart, EndSample |-> sEnd],
                       Skipped |-> FALSE, SkipReason |-> ""],
                   !.FineAdjustmentSamples = adj]

\* Lines 228-251: store the fine-tuning result and merge the offsets.
MergeFine(fo, fineResult, sStart, sEnd) ==
    LET adj == -fineResult.OffsetSamples
    IN  [fo EXCEPT !.FinetuneResult =
                      [IsNil |-> FALSE, FineAdjustmentSamples |-> adj,
                       SegmentUsed |-> [StartSample |-> sStart, EndSample |-> sEnd],
                       Skipped |-> FALSE, SkipReason |-> ""],
                   !.FineAdjustmentSamples = adj,
                   !.FinalOffsetSamples = fo.OffsetSamples + adj]

(***************************************************************************)
(* Inputs                                                                  *)
(***************************************************************************)
\* Sample i (0-based) of the recorded programme: a fixed aperiodic pattern.
Ref(i) == ((i * i) % 7) + ((i * i * i) % 11) - ((5 * i) % 13)

\* The reference file: the first n samples of the programme.
MixedOf(n) == [i \in 1..n |-> Ref(i - 1)]

\* A local file: len frames of the programme from position start on, with
\* ch interleaved channels (frame v is stored as v+1, v-1 when ch = 2).
DataOf(start, len, ch) ==
    IF ch = 1 THEN [i \in 1..len |-> Ref(start + i - 1)]
    ELSE [i \in 1..(2 * len) |->
            IF i % 2 = 1 THEN Ref(start + ((i - 1) \div 2)) + 1
            ELSE Ref(start + ((i - 1) \div 2)) - 1]

\* Tracks: coarse is the coarse OffsetSamples detected for the track, start
\* the position its content really has in the programme.
TrackPool ==
    { [coarse |-> 0,  start |-> 0,  len |-> 62, ch |-> 1],
      [coarse |-> 0,  start |-> 1,  len |-> 61, ch |-> 2],
      [coarse |-> 2,  start |-> 0,  len |-> 60, ch |-> 1],
      [coarse |-> 3,  start |-> 4,  len |-> 70, ch |-> 1],
      [coarse |-> 40, start |-> 40, len |-> 62, ch |-> 2],
      [coarse |-> 70, start |-> 70, len |-> 31, ch |-> 1] }

\* The tracks of the overlap example: [0,1000), [100,1100), [50,900).
ExampleTracks ==
    << [coarse |-> 0,   start |-> 0,   len |-> 1000, ch |-> 1],
       [coarse |-> 100, start |-> 100, len |-> 1000, ch |-> 1],
       [coarse |-> 50,  start |-> 50,  len |-> 850,  ch |-> 1] >>

MixedLens == {64, 140}

SampleRates == {1, 2}

TrackLists == UNION { [1..n -> TrackPool] : n \in 0..MaxTracks }

InitWith(tracks, mixedLen, rate, nPaths) ==
    /\ mixedWav = [Data |-> MixedOf(mixedLen), Channels |-> 1]
    /\ mixed = ToMono(mixedWav.Data, mixedWav.Channels)
    /\ localFiles = [i \in 1..Len(tracks) |->
                       [Data |-> DataOf(tracks[i].start, tracks[i].len, tracks[i].ch),
                        Channels |-> tracks[i].ch]]
    /\ sampleRate = rate
    /\ targetSec = 60
    /\ minSec = 30
    /\ filePaths = [i \in 1..nPaths |-> i]
    /\ results = [i \in 1..Len(tracks) |-> OffsetResultOf(tracks[i].coarse)]
    /\ fileOffsets = <<>>
    /\ pc = "start"
    /\ err = ""
    /\ ret = "unset"
    /\ overlap = [StartSample |-> 0, EndSample |-> 0]
    /\ segStart = 0
    /\ segEnd = 0
    /\ mixedSegment = <<>>
    /\ idx = 0
    /\ fineResults = <<>>
    /\ cfgDownsampleFactor = 1
    /\ launched = 0
    /\ wstate = <<>>
    /\ computed = <<>>
    /\ wg = 0
    /\ chan = <<>>
    /\ chanClosed = FALSE
    /\ sendOrder = <<>>
    /\ offsetResults = <<>>
    /\ written = <<>>
    /\ detection = NoDetection

\* Any list of tracks with as many paths; a list with one path too many (the
\* other inputs are not read then); the overlap example.
Init ==
    \/ \E tracks \in TrackLists, mixedLen \in MixedLens, rate \in SampleRates :
          InitWith(tracks, mixedLen, rate, Len(tracks))
    \/ \E tracks \in TrackLists : InitWith(tracks, 64, 1, Len(tracks) + 1)
    \/ InitWith(ExampleTracks, 1100, 1, 3)

(***************************************************************************)
(* Actions                                                                 *)
(***************************************************************************)
FineLocals == <<overlap, segStart, segEnd, mixedSegment, idx, fineResults>>

ParallelLocals == <<launched, wstate, computed, wg, chan, chanClosed, sendOrder, offsetResults>>

Inputs == <<mixed, mixedWav, localFiles, sampleRate, targetSec, minSec, filePaths,
            cfgDownsampleFactor>>

\* What the steps of package sync leave alone.
Given == <<Inputs, results, ParallelLocals, written, detection>>

\* The caller builds the FileOffsets from the coarse results.
CalculatePaddingCall ==
    /\ pc = "start"
    /\ LET r == CalculatePadding(results, filePaths, sampleRate)
       IN  /\ fileOffsets' = r.fileOffsets
           /\ err' = r.err
           /\ pc' = IF r.err = "" THEN "padded" ELSE "failed"
    /\ UNCHANGED <<Given, ret, FineLocals>>

\* FinetuneOffsets step 1 (lines 148-152).
FindOverlap ==
    /\ pc = "padded"
    /\ LET r == findOverlappingRegion(localFiles, fileOffsets, sampleRate)
       IN  IF r.panic
           THEN /\ pc' = "panicked"
                /\ UNCHANGED <<err, ret, overlap>>
           ELSE IF r.err # ""
           THEN /\ pc' = "returned"
                /\ ret' = "nil"
                /\ err' = "failed to find overlapping region"
                /\ UNCHANGED overlap
           ELSE /\ pc' = "overlap"
                /\ overlap' = [StartSample |-> r.StartSample, EndSample |-> r.EndSample]
                /\ UNCHANGED <<err, ret>>
    /\ UNCHANGED <<Given, fileOffsets, segStart, segEnd, mixedSegment, idx, fineResults>>

\* FinetuneOffsets step 2 (lines 154-167).
SelectSegment ==
    /\ pc = "overlap"
    /\ LET r == selectFinetuneSegment(overlap, targetSec, minSec, sampleRate)
       IN  IF r.err # ""
           THEN /\ fileOffsets' = [i \in 1..Len(fileOffsets) |-> SkipTrack(fileOffsets[i], r.err)]
                /\ pc' = "returned"
                /\ ret' = "fileOffsets"
                /\ err' = ""
                /\ UNCHANGED <<segStart, segEnd>>
           ELSE /\ segStart' = r.startSample
                /\ segEnd' = r.endSample
                /\ pc' = "segment"
                /\ UNCHANGED <<fileOffsets, ret, err>>
    /\ UNCHANGED <<Given, overlap, mixedSegment, idx, fineResults>>

\* FinetuneOffsets step 3 (lines 169-173).
ExtractMixed ==
    /\ pc = "segment"
    /\ LET r == extractSegment(mixed, segStart, segEnd)
       IN  IF r.err # ""
           THEN /\ pc' = "returned"
                /\ ret' = "nil"
                /\ err' = "failed to extract mixed segment"
                /\ UNCHANGED <<mixedSegment, idx>>
           ELSE /\ mixedSegment' = r.segment
                /\ idx' = 1
                /\ pc' = "loop"
                /\ UNCHANGED <<ret, err>>
    /\ UNCHANGED <<Given, fileOffsets, overlap, segStart, segEnd, fineResults>>

\* One iteration of FinetuneOffsets step 4 (lines 176-252).
NoFineResult == [called |-> FALSE, err |-> "", OffsetSamples |-> 0]

FinetuneTrack ==
    /\ pc = "loop"
    /\ idx <= Len(localFiles)
    /\ LET localMono == ToMono(localFiles[idx].Data, localFiles[idx].Channels)
           localSegStart == segStart - fileOffsets[idx].OffsetSamples
           localSegEnd == segEnd - fileOffsets[idx].OffsetSamples
           ext == extractSegment(localMono, localSegStart, localSegEnd)
           fineResult == DetectOffset(mixedSegment, ext.segment, sampleRate, 1)
           SetTrack(fo) == [fileOffsets EXCEPT ![idx] = fo]
       IN  IF localSegStart < 0 \/ localSegEnd > Len(localMono)
           THEN /\ fileOffsets' = SetTrack(SkipTrack(fileOffsets[idx], "segment out of bounds"))
                /\ fineResults' = Append(fineResults, NoFineResult)
           ELSE IF ext.err # ""
           THEN /\ fileOffsets' = SetTrack(SkipTrack(fileOffsets[idx], "extraction failed"))
                /\ fineResults' = Append(fineResults, NoFineResult)
           ELSE IF fineResult.err # ""
           THEN /\ fileOffsets' = SetTrack(SkipTrack(fileOffsets[idx], "correlation failed"))
                /\ fineResults' = Append(fineResults,
                       [called |-> TRUE, err |-> fineResult.err, OffsetSamples |-> 0])
           ELSE /\ fileOffsets' = SetTrack(MergeFine(fileOffsets[idx], fineResult, segStart, segEnd))
                /\ fineResults' = Append(fineResults,
                       [called |-> TRUE, err |-> "", OffsetSamples |-> fineResult.OffsetSamples])
    /\ idx' = idx + 1
    /\ UNCHANGED <<Given, pc, err, ret, overlap, segStart, segEnd, mixedSegment>>

\* FinetuneOffsets step 5 (line 255).
RecalculateAndReturn ==
    /\ pc = "loop"
    /\ idx > Len(localFiles)
    /\ LET r == recalculatePadding(fileOffsets, sampleRate)
       IN  /\ fileOffsets' = IF r.err = "" THEN r.fileOffsets ELSE fileOffsets
           /\ ret' = IF r.err = "" THEN "fileOffsets" ELSE "nil"
           /\ err' = r.err
    /\ pc' = "returned"
    /\ UNCHANGED <<Given, FineLocals>>

Next ==
    \/ CalculatePaddingCall
    \/ FindOverlap
    \/ SelectSegment
    \/ ExtractMixed
    \/ FinetuneTrack
    \/ RecalculateAndReturn

Spec == Init /\ [][Next]_vars

(***************************************************************************)
(* internal/cli/runner.go: detectOffsetsParallel                           *)
(***************************************************************************)
MaxLocalFiles == 3

\* The reference and the local files of the parallel detection: short
\* signals; an empty one makes DetectOffset fail.
ShortMixed == [Data |-> <<0, 5, 0, 0, 1, 0, -2, 0, 0, 3>>, Channels |-> 1]

ShortLocals ==
    { [Data |-> <<>>, Channels |-> 1],
      [Data |-> <<5, 0, 0>>, Channels |-> 1],
      [Data |-> <<0, 0, 3>>, Channels |-> 1],
      [Data |-> <<-1, -3, 1, -1, 0, 0, 4, 2>>, Channels |-> 2] }

DownsampleFactors == {1, 2}

InitParallel ==
    \E n \in 1..MaxLocalFiles :
      \E files \in [1..n -> ShortLocals], factor \in DownsampleFactors :
        /\ mixedWav = ShortMixed
        /\ mixed = ToMono(ShortMixed.Data, ShortMixed.Channels)
        /\ localFiles = files
        /\ sampleRate = 1
        /\ targetSec = 60
        /\ minSec = 30
        /\ filePaths = [i \in 1..n |-> i]
        /\ cfgDownsampleFactor = factor
        /\ results = <<>>
        /\ fileOffsets = <<>>
        /\ pc = "launch"
        /\ err = ""
        /\ ret = "unset"
        /\ overlap = [StartSample |-> 0, EndSample |-> 0]
        /\ segStart = 0
        /\ segEnd = 0
        /\ mixedSegment = <<>>
        /\ idx = 0
        /\ fineResults = <<>>
        /\ launched = 0
        /\ wstate = [i \in 1..n |-> "idle"]
        /\ computed = [i \in 1..n |-> [err |-> "", offset |-> NilOffsetResult]]
        /\ wg = 0
        /\ chan = <<>>
        /\ chanClosed = FALSE
        /\ sendOrder = <<>>
        /\ offsetResults = <<>>
        /\ written = <<>>
        /\ detection = NoDetection

SyncState == <<fileOffsets, ret, FineLocals>>

\* Lines 169-185: wg.Add(1) and the go statement for the next file; after the
\* last one the caller waits.
Launch ==
    /\ pc = "launch"
    /\ launched < Len(localFiles)
    /\ launched' = launched + 1
    /\ wg' = wg + 1
    /\ wstate' = [wstate EXCEPT ![launched + 1] = "running"]
    /\ UNCHANGED <<Inputs, written, detection, results, SyncState, pc, err, computed, chan, chanClosed, sendOrder, offsetResults>>

LaunchDone ==
    /\ pc = "launch"
    /\ launched = Len(localFiles)
    /\ pc' = "wait"
    /\ UNCHANGED <<Inputs, written, detection, results, SyncState, err, ParallelLocals>>

\* The result a goroutine sends (lines 174-183); index is 0-based.
WorkerResult(w) ==
    LET localMono == ToMono(localFiles[w].Data, localFiles[w].Channels)
        r == DetectOffset(mixed, localMono, sampleRate, cfgDownsampleFactor)
    IN  [index |-> w - 1,
         offset |-> IF r.err = "" THEN OffsetResultOf(r.OffsetSamples) ELSE NilOffsetResult,
         err |-> r.err]

\* Variant: the channel has room for one result fewer than there are files.
ChannelCapacity_OneLess == Len(localFiles) - 1

\* Line 165: make(chan result, len(localFiles)).
ChannelCapacity == Len(localFiles)

\* Goroutine w detects and sends; the send needs room in the buffer.
WorkerSend(w) ==
    /\ wstate[w] = "running"
    /\ Len(chan) < ChannelCapacity
    /\ LET r == WorkerResult(w)
       IN  /\ chan' = Append(chan, r)
           /\ computed' = [computed EXCEPT ![w] = [err |-> r.err, offset |-> r.offset]]
    /\ wstate' = [wstate EXCEPT ![w] = "sent"]
    /\ sendOrder' = Append(sendOrder, w)
    /\ UNCHANGED <<Inputs, written, detection, results, SyncState, pc, err, launched, wg, chanClosed, offsetResults>>

\* The deferred wg.Done() of goroutine w.
WorkerDone(w) ==
    /\ wstate[w] = "sent"
    /\ wstate' = [wstate EXCEPT ![w] = "done"]
    /\ wg' = wg - 1
    /\ UNCHANGED <<Inputs, written, detection, results, SyncState, pc, err, launched, computed, chan, chanClosed, sendOrder, offsetResults>>

\* Lines 188-192: wg.Wait() returns at counter 0; close; make the slice.
WaitAndClose ==
    /\ pc = "wait"
    /\ wg = 0
    /\ chanClosed' = TRUE
    /\ offsetResults' = [i \in 1..Len(localFiles) |-> NilOffsetResult]
    /\ pc' = "collect"
    /\ UNCHANGED <<Inputs, written, detection, results, SyncState, err, launched, wstate, computed, wg, chan, sendOrder>>

\* Variant: a result is stored at the next free position, in arrival order.
StoreResult_Arrival(offs, r) ==
    LET free == { i \in 1..Len(offs) : offs[i].IsNil }
    IN  [offs EXCEPT ![SetMin(free)] = r.offset]

\* Line 197: offsetResults[r.index] = r.offset.
StoreResult(offs, r) == [offs EXCEPT ![r.index + 1] = r.offset]

\* Variant: a failed result is dropped and the loop goes on to the next one.
Collect_DropFailed ==
    /\ pc = "collect"
    /\ chan # <<>>
    /\ LET r == Head(chan)
       IN  IF r.err # ""
           THEN UNCHANGED <<pc, err, results, offsetResults>>
           ELSE /\ offsetResults' = StoreResult(offsetResults, r)
                /\ UNCHANGED <<pc, err, results>>
    /\ chan' = Tail(chan)
    /\ UNCHANGED <<Inputs, written, detection, SyncState, launched, wstate, computed, wg, chanClosed, sendOrder>>

\* One iteration of the range over the closed channel (lines 193-198).
Collect ==
    /\ pc = "collect"
    /\ chan # <<>>
    /\ LET r == Head(chan)
       IN  IF r.err # ""
           THEN /\ pc' = "detectFailed"
                /\ err' = "offset detection failed"
                /\ results' = <<>>
                /\ UNCHANGED offsetResults
           ELSE /\ offsetResults' = StoreResult(offsetResults, r)
                /\ UNCHANGED <<pc, err, results>>
    /\ chan' = Tail(chan)
    /\ UNCHANGED <<Inputs, written, detection, SyncState, launched, wstate, computed, wg, chanClosed, sendOrder>>

\* Line 200: the channel is drained and closed.
ReturnOffsets ==
    /\ pc = "collect"
    /\ chan = <<>>
    /\ chanClosed
    /\ results' = offsetResults
    /\ pc' = "detected"
    /\ UNCHANGED <<Inputs, written, detection, SyncState, err, ParallelLocals>>

SomeWorkerSends == \E w \in 1..Len(localFiles) : WorkerSend(w)

SomeWorkerDone == \E w \in 1..Len(localFiles) : WorkerDone(w)

NextParallel ==
    \/ Launch
    \/ LaunchDone
    \/ SomeWorkerSends
    \/ SomeWorkerDone
    \/ WaitAndClose
    \/ Collect
    \/ ReturnOffsets

SpecParallel == InitParallel /\ [][NextParallel]_vars

\* The caller's steps.
CallerStep == Launch \/ LaunchDone \/ WaitAndClose \/ Collect \/ ReturnOffsets

\* The send of some goroutine as the change of its position alone (line 179);
\* enabled exactly when SomeWorkerSends is.
SomeWorkerSent ==
    \E w \in 1..Len(localFiles) :
        /\ wstate[w] = "running"
        /\ Len(chan) < ChannelCapacity
        /\ wstate' = [wstate EXCEPT ![w] = "sent"]

\* The Go scheduler runs a goroutine that can run: the caller goes on when
\* it is not blocked in wg.Wait(), a goroutine whose send has room sends,
\* and a goroutine that has sent runs its deferred wg.Done().
SpecParallelFair ==
    /\ SpecParallel
    /\ WF_vars(CallerStep)
    /\ WF_wstate(SomeWorkerSent)
    /\ WF_vars(SomeWorkerDone)

(***************************************************************************)
(* internal/cli/runner.go: Run, steps 4 and 5                              *)
(***************************************************************************)
\* Variant: the silence is counted in frames, not in interleaved samples.
writeSyncedFile_Frames(localData, fo) ==
    IF fo.PaddingSamples > 0
    THEN PrependSilence(localData.Data, fo.PaddingSamples)
    ELSE localData.Data

\* writeSyncedFile (lines 204-222): the syncedData it passes to
\* audio.WriteWAV; the encoder and the file system are not modelled.
writeSyncedFile(localData, fo) ==
    IF fo.PaddingSamples > 0
    THEN PrependSilence(localData.Data, fo.PaddingSamples * localData.Channels)
    ELSE localData.Data

\* One iteration of the loop of lines 90-96, on the FileOffsets of step 4.
WriteSyncedFile ==
    /\ pc = "padded"
    /\ Len(written) < Len(fileOffsets)
    /\ LET i == Len(written) + 1
       IN  written' = Append(written, writeSyncedFile(localFiles[i], fileOffsets[i]))
    /\ UNCHANGED <<Inputs, results, ParallelLocals, SyncState, pc, err, detection>>

\* Line 101: every file is written.
RunDone ==
    /\ pc = "padded"
    /\ Len(written) = Len(fileOffsets)
    /\ pc' = "done"
    /\ UNCHANGED <<Given, SyncState, err>>

NextWrite ==
    \/ CalculatePaddingCall
    \/ WriteSyncedFile
    \/ RunDone

SpecWrite == Init /\ [][NextWrite]_vars

(***************************************************************************)
(* FinetuneOffsets called with lists of different lengths                  *)
(***************************************************************************)
\* The first n elements of a sequence.
Prefix(seq, n) == [i \in 1..n |-> seq[i]]

\* A caller that hands FinetuneOffsets the FileOffsets of offsetTracks and
\* the local files of fileTracks.
InitCall(fileTracks, offsetTracks, mixedLen) ==
    /\ mixedWav = [Data |-> MixedOf(mixedLen), Channels |-> 1]
    /\ mixed = ToMono(mixedWav.Data, mixedWav.Channels)
    /\ localFiles = [i \in 1..Len(fileTracks) |->
                       [Data |-> DataOf(fileTracks[i].start, fileTracks[i].len,
                                        fileTracks[i].ch),
                        Channels |-> fileTracks[i].ch]]
    /\ sampleRate = 1
    /\ targetSec = 60
    /\ minSec = 30
    /\ filePaths = [i \in 1..Len(offsetTracks) |-> i]
    /\ results = [i \in 1..Len(offsetTracks) |-> OffsetResultOf(offsetTracks[i].coarse)]
    /\ fileOffsets = <<>>
    /\ pc = "start"
    /\ err = ""
    /\ ret = "unset"
    /\ overlap = [StartSample |-> 0, EndSample |-> 0]
    /\ segStart = 0
    /\ segEnd = 0
    /\ mixedSegment = <<>>
    /\ idx = 0
    /\ fineResults = <<>>
    /\ cfgDownsampleFactor = 1
    /\ launched = 0
    /\ wstate = <<>>
    /\ computed = <<>>
    /\ wg = 0
    /\ chan = <<>>
    /\ chanClosed = FALSE
    /\ sendOrder = <<>>
    /\ offsetResults = <<>>
    /\ written = <<>>
    /\ detection = NoDetection

\* One local file fewer than FileOffsets, or one FileOffset fewer than
\* local files.
InitMismatch ==
    \E tracks \in TrackLists, mixedLen \in MixedLens :
        /\ Len(tracks) >= 2
        /\ \/ InitCall(Prefix(tracks, Len(tracks) - 1), tracks, mixedLen)
           \/ InitCall(tracks, Prefix(tracks, Len(tracks) - 1), mixedLen)

SpecMismatch == InitMismatch /\ [][Next]_vars

(***************************************************************************)
(* DetectOffset on its own                                                 *)
(***************************************************************************)
MaxSignalLen == 4

SampleValues == {-1, 0, 1}

\* The signals of at most MaxSignalLen samples, the empty one included.
Signals == UNION { [1..n -> SampleValues] : n \in 0..MaxSignalLen }

InitDetect ==
    \E a \in Signals, b \in Signals, factor \in DownsampleFactors :
        /\ mixedWav = [Data |-> a, Channels |-> 1]
        /\ mixed = a
        /\ localFiles = << [Data |-> b, Channels |-> 1] >>
        /\ sampleRate = 1
        /\ targetSec = 60
        /\ minSec = 30
        /\ filePaths = <<1>>
        /\ cfgDownsampleFactor = factor
        /\ results = <<>>
        /\ fileOffsets = <<>>
        /\ pc = "detect"
        /\ err = ""
        /\ ret = "unset"
        /\ overlap = [StartSample |-> 0, EndSample |-> 0]
        /\ segStart = 0
        /\ segEnd = 0
        /\ mixedSegment = <<>>
        /\ idx = 0
        /\ fineResults = <<>>
        /\ launched = 0
        /\ wstate = <<>>
        /\ computed = <<>>
        /\ wg = 0
        /\ chan = <<>>
        /\ chanClosed = FALSE
        /\ sendOrder = <<>>
        /\ offsetResults = <<>>
        /\ written = <<>>
        /\ detection = NoDetection

\* DetectOffset(mixed, local, sampleRate, segmentDuration, downsampleFactor).
DetectCall ==
    /\ pc = "detect"
    /\ LET r == DetectOffset(mixed, localFiles[1].Data, sampleRate, cfgDownsampleFactor)
       IN  /\ detection' = [called |-> TRUE, err |-> r.err,
                            OffsetSamples |-> r.OffsetSamples,
                            PeakIndex |-> r.PeakIndex, PeakValue |-> r.PeakValue,
                            MixedScaleSq |-> r.MixedScaleSq,
                            LocalScaleSq |-> r.LocalScaleSq, LocalLen |-> r.LocalLen]
           /\ err' = r.err
           /\ pc' = IF r.err = "" THEN "detectedOne" ELSE "detectOneFailed"
    /\ UNCHANGED <<Inputs, results, ParallelLocals, SyncState, written>>

NextDetect == DetectCall

SpecDetect == InitDetect /\ [][NextDetect]_vars

\* DetectOffset called directly and called by FinetuneOffsets.
InitOffsets == InitDetect \/ Init

NextOffsets == NextDetect \/ Next

SpecOffsets == InitOffsets /\ [][NextOffsets]_vars

(***************************************************************************)
(* selectFinetuneSegment on its own                                        *)
(***************************************************************************)
MaxOverlap == 10

MaxSeconds == 3

MaxRate == 3

\* Any overlap region, sample rate and pair of durations with the minimum
\* not above the target.
InitSelect ==
    \E start \in 0..2, len \in 1..MaxOverlap, rate \in 1..MaxRate, target \in 1..MaxSeconds :
      \E minimum \in 0..target :
        /\ overlap = [StartSample |-> start, EndSample |-> start + len]
        /\ sampleRate = rate
        /\ targetSec = target
        /\ minSec = minimum
        /\ pc = "select"
        /\ err = ""
        /\ segStart = 0
        /\ segEnd = 0
        /\ mixedWav = [Data |-> <<>>, Channels |-> 1]
        /\ mixed = <<>>
        /\ localFiles = <<>>
        /\ filePaths = <<>>
        /\ results = <<>>
        /\ fileOffsets = <<>>
        /\ ret = "unset"
        /\ mixedSegment = <<>>
        /\ idx = 0
        /\ fineResults = <<>>
        /\ cfgDownsampleFactor = 1
        /\ launched = 0
        /\ wstate = <<>>
        /\ computed = <<>>
        /\ wg = 0
        /\ chan = <<>>
        /\ chanClosed = FALSE
        /\ sendOrder = <<>>
        /\ offsetResults = <<>>
        /\ written = <<>>
        /\ detection = NoDetection

SelectCall ==
    /\ pc = "select"
    /\ LET r == selectFinetuneSegment(overlap, targetSec, minSec, sampleRate)
       IN  /\ err' = r.err
           /\ segStart' = r.startSample
           /\ segEnd' = r.endSample
           /\ pc' = IF r.err = "" THEN "selected" ELSE "selectFailed"
    /\ UNCHANGED <<Given, fileOffsets, ret, overlap, mixedSegment, idx, fineResults>>

NextSelect == SelectCall

SpecSelect == InitSelect /\ [][NextSelect]_vars

(***************************************************************************)
(* Properties                                                              *)
(***************************************************************************)
Tracks == 1..Len(fileOffsets)

CoarseOffsets == { results[j].OffsetSamples : j \in 1..Len(results) }

FinalOffsets == { fileOffsets[j].FinalOffsetSamples : j \in Tracks }

\* Each track's interval on the coarse-aligned timeline.
TrackStart(i) == fileOffsets[i].OffsetSamples

TrackEnd(i) ==
    fileOffsets[i].OffsetSamples + Len(ToMono(localFiles[i].Data, localFiles[i].Channels))

MaxStart == SetMax({ TrackStart(i) : i \in Tracks })

MinEnd == SetMin({ TrackEnd(i) : i \in Tracks })

\* Positions of the caller.
Padded == pc = "padded"

Returned == pc = "returned"

ReturnedOk == pc = "returned" /\ err = "" /\ ret = "fileOffsets"

OverlapFailed == pc = "returned" /\ err = "failed to find overlapping region"

SkippedAll == ReturnedOk /\ idx = 0

Recalculated == ReturnedOk /\ idx > Len(localFiles)

OverlapFound == pc \in {"overlap", "segment", "loop"} \/ (Returned /\ ~OverlapFailed)

SegmentSelected == pc \in {"segment", "loop"} \/ (Returned /\ ~OverlapFailed /\ ~SkippedAll)

PaddingComputed == Padded \/ Recalculated

UsedOffset(i) ==
    IF Padded THEN fileOffsets[i].OffsetSamples ELSE fileOffsets[i].FinalOffsetSamples

ZeroPadded == { i \in Tracks : fileOffsets[i].PaddingSamples = 0 /\ fileOffsets[i].IsEarliest }

AllEqual == \A i, j \in Tracks : UsedOffset(i) = UsedOffset(j)

C3_PaddingFromFinalOffsets ==
    ReturnedOk =>
        \A i \in Tracks :
            /\ fileOffsets[i].PaddingSamples =
                   fileOffsets[i].FinalOffsetSamples - SetMin(FinalOffsets)
            /\ fileOffsets[i].PaddingSamples >= 0
            /\ fileOffsets[i].IsEarliest <=>
                   (fileOffsets[i].FinalOffsetSamples = SetMin(FinalOffsets))

\* C3 witness: a fine-tuned return whose padding differs from the coarse one.
C3_Witness ==
    /\ Recalculated
    /\ \E i \in Tracks :
          fileOffsets[i].PaddingSamples # results[i].OffsetSamples - SetMin(CoarseOffsets)

\* C4: after an error-free return final = coarse + fine adjustment for every
\* track (in the FileOffset and in its FinetuneResult), and the adjustment
\* of a skipped track is 0.
C4_FinalIsCoarsePlusFine ==
    ReturnedOk =>
        \A i \in Tracks :
            /\ ~fileOffsets[i].FinetuneResult.IsNil
            /\ fileOffsets[i].FinalOffsetSamples =
                   fileOffsets[i].OffsetSamples + fileOffsets[i].FineAdjustmentSamples
            /\ fileOffsets[i].FinalOffsetSamples =
                   fileOffsets[i].OffsetSamples + fileOffsets[i].FinetuneResult.FineAdjustmentSamples
            /\ fileOffsets[i].FinetuneResult.Skipped =>
                   /\ fileOffsets[i].FineAdjustmentSamples = 0
                   /\ fileOffsets[i].FinalOffsetSamples = fileOffsets[i].OffsetSamples

\* C4 witness: a return with a track whose adjustment is not 0 and whose
\* coarse offset is not 0.
C4_Witness ==
    /\ ReturnedOk
    /\ \E i \in Tracks :
          /\ ~fileOffsets[i].FinetuneResult.Skipped
          /\ fileOffsets[i].FineAdjustmentSamples # 0
          /\ fileOffsets[i].OffsetSamples # 0

IsOverlapExample ==
    /\ Len(fileOffsets) = 3
    /\ <<TrackStart(1), TrackEnd(1)>> = <<0, 1000>>
    /\ <<TrackStart(2), TrackEnd(2)>> = <<100, 1100>>
    /\ <<TrackStart(3), TrackEnd(3)>> = <<50, 900>>

\* C5: findOverlappingRegion fails exactly when the least end is not after
\* the greatest start; otherwise the region is [greatest start, least end),
\* which is not empty; the intervals [0,1000), [100,1100), [50,900) give
\* [100,900).
C5_OverlapIsIntersection ==
    /\ OverlapFailed => MinEnd <= MaxStart
    /\ OverlapFound =>
         /\ MinEnd > MaxStart
         /\ overlap.StartSample = MaxStart
         /\ overlap.EndSample = MinEnd
         /\ overlap.EndSample > overlap.StartSample
         /\ IsOverlapExample => overlap = [StartSample |-> 100, EndSample |-> 900]

\* C5 witness: the region of the example has been computed.
C5_Witness ==
    /\ pc = "overlap"
    /\ IsOverlapExample
    /\ overlap = [StartSample |-> 100, EndSample |-> 900]

\* C6 as stated: without a shared interval FinetuneOffsets returns no error
\* and every track is marked skipped with its coarse offset as final offset.
C6_NoOverlapFallsBack ==
    (Returned /\ MinEnd <= MaxStart) =>
        /\ err = ""
        /\ ret = "fileOffsets"
        /\ \A i \in Tracks :
              /\ ~fileOffsets[i].FinetuneResult.IsNil
              /\ fileOffsets[i].FinetuneResult.Skipped
              /\ fileOffsets[i].FinalOffsetSamples = fileOffsets[i].OffsetSamples

OverlapBelowMinimum == MinEnd > MaxStart /\ MinEnd - MaxStart < 30 * sampleRate

\* C7: with an overlap shorter than 30 s of samples FinetuneOffsets returns
\* no error, every track keeps its coarse offset as final offset and is
\* marked skipped with a reason, and DetectOffset was run for no track.
C7_ShortOverlapSkipsAll ==
    (Returned /\ OverlapBelowMinimum) =>
        /\ err = ""
        /\ ret = "fileOffsets"
        /\ fineResults = <<>>
        /\ \A i \in Tracks :
              /\ fileOffsets[i].FinalOffsetSamples = fileOffsets[i].OffsetSamples
              /\ ~fileOffsets[i].FinetuneResult.IsNil
              /\ fileOffsets[i].FinetuneResult.Skipped
              /\ fileOffsets[i].FinetuneResult.SkipReason # ""
              /\ fileOffsets[i].FineAdjustmentSamples = 0

\* C7 witness: at 2 samples per second an overlap of 30 samples or more, yet
\* below 30 s, is skipped; a track has a coarse offset other than 0.
C7_Witness ==
    /\ Returned
    /\ OverlapBelowMinimum
    /\ sampleRate = 2
    /\ MinEnd - MaxStart >= 30
    /\ \E i \in Tracks : fileOffsets[i].FinalOffsetSamples # 0

TargetSamples == targetSec * sampleRate

MinSamples == minSec * sampleRate

OverlapSamples == overlap.EndSample - overlap.StartSample

SelectFailed == pc = "selectFailed" \/ SkippedAll

SelectSucceeded == pc = "selected" \/ SegmentSelected

\* C8: with T the target and M the minimum in samples and L the overlap
\* length, selectFinetuneSegment reports an error when L < M; when L >= T it
\* returns a segment of length T inside the overlap whose margins differ by
\* at most one sample; when M <= L < T it returns the whole overlap.
C8_SegmentSelection ==
    /\ SelectFailed => OverlapSamples < MinSamples
    /\ SelectSucceeded =>
         /\ OverlapSamples >= MinSamples
         /\ OverlapSamples >= TargetSamples =>
              /\ segEnd - segStart = TargetSamples
              /\ overlap.StartSample <= segStart
              /\ segEnd <= overlap.EndSample
              /\ (segStart - overlap.StartSample) - (overlap.EndSample - segEnd) \in {-1, 0, 1}
         /\ OverlapSamples < TargetSamples =>
              /\ segStart = overlap.StartSample
              /\ segEnd = overlap.EndSample

\* C8 witness: a centred segment of odd length with room on both sides and
\* margins that differ by one sample.
C8_Witness ==
    /\ pc = "selected"
    /\ OverlapSamples >= TargetSamples
    /\ TargetSamples % 2 = 1
    /\ segStart > overlap.StartSample
    /\ segEnd < overlap.EndSample
    /\ (segStart - overlap.StartSample) # (overlap.EndSample - segEnd)

FineTuned(i) ==
    /\ i <= Len(fineResults)
    /\ fineResults[i].called
    /\ fineResults[i].err = ""

\* C9: a fine-tuned track has fine adjustment = -(raw correlation offset), in
\* the FileOffset and in its FinetuneResult, and final = coarse - raw.
C9_AdjustmentIsInvertedRaw ==
    \A i \in Tracks :
        FineTuned(i) =>
            /\ ~fileOffsets[i].FinetuneResult.IsNil
            /\ ~fileOffsets[i].FinetuneResult.Skipped
            /\ fileOffsets[i].FineAdjustmentSamples = -fineResults[i].OffsetSamples
            /\ fileOffsets[i].FinetuneResult.FineAdjustmentSamples = -fineResults[i].OffsetSamples
            /\ fileOffsets[i].FinalOffsetSamples =
                   fileOffsets[i].OffsetSamples - fineResults[i].OffsetSamples
            /\ fineResults[i].OffsetSamples > 0 =>
                   fileOffsets[i].FinalOffsetSamples < fileOffsets[i].OffsetSamples

\* C9 witness: a positive raw offset has reduced a coarse offset.
C9_Witness ==
    /\ Recalculated
    /\ \E i \in Tracks :
          /\ FineTuned(i)
          /\ fineResults[i].OffsetSamples > 0
          /\ fileOffsets[i].OffsetSamples > 0
          /\ fileOffsets[i].FinalOffsetSamples < fileOffsets[i].OffsetSamples

\* C10: whatever the order in which the goroutines sent their results, the
\* slice detectOffsetsParallel returns holds at position i the offset result
\* that the goroutine of local file i computed.
C10_ResultsByTrackIndex ==
    pc = "detected" =>
        /\ Len(results) = Len(localFiles)
        /\ \A i \in 1..Len(localFiles) :
              /\ wstate[i] = "done"
              /\ ~results[i].IsNil
              /\ results[i] = computed[i].offset

\* C10 witness: the results arrived in another order than the files, with
\* different offsets, and were returned.
C10_Witness ==
    /\ pc = "detected"
    /\ Len(results) = 3
    /\ results[1].OffsetSamples # results[2].OffsetSamples
    /\ results[2].OffsetSamples # results[3].OffsetSamples
    /\ results[1].OffsetSamples # results[3].OffsetSamples
    /\ sendOrder # <<1, 2, 3>>

\* The signal DetectOffset receives for local file i (runner.go:174).
LocalMono(i) == ToMono(localFiles[i].Data, localFiles[i].Channels)

\* Detection fails for local file i: one of the two signals is empty.
DetectionFails(i) == Len(mixed) = 0 \/ Len(LocalMono(i)) = 0

\* C11: detectOffsetsParallel is all-or-nothing.  Once it has returned, in
\* every order of completion of the goroutines: if the detection of some
\* local file failed (an empty signal), it has returned the error and no
\* result slice; it has returned results exactly when the detection of
\* every local file succeeded, and then one non-nil result per file.
C11_AllOrNothing ==
    /\ pc \in {"detected", "detectFailed"} =>
          ((\E i \in 1..Len(localFiles) : DetectionFails(i)) <=> pc = "detectFailed")
    /\ pc = "detectFailed" =>
          /\ err = "offset detection failed"
          /\ results = <<>>
          /\ \E i \in 1..Len(localFiles) : computed[i].err # ""
    /\ pc = "detected" =>
          /\ err = ""
          /\ Len(results) = Len(localFiles)
          /\ \A i \in 1..Len(localFiles) :
                computed[i].err = "" /\ ~results[i].IsNil

\* C11 witness: three files, the one that fails is not the first to arrive,
\* so results of the others had been stored when the error was returned.
C11_Witness ==
    /\ pc = "detectFailed"
    /\ results = <<>>
    /\ Len(localFiles) = 3
    /\ Cardinality({ i \in 1..3 : DetectionFails(i) }) = 1
    /\ ~DetectionFails(sendOrder[1])
    /\ \E i \in 1..3 : ~offsetResults[i].IsNil

\* The positions of sendOrder at which goroutine w sent.
SendsOf(w) == { k \in 1..Len(sendOrder) : sendOrder[k] = w }

\* detectOffsetsParallel has returned.
DetectionReturned == pc \in {"detected", "detectFailed"}

\* The barrier as a state predicate: one goroutine per launched file and none
\* else, each has sent at most once and exactly once when it has finished,
\* nothing is received or returned before wg.Wait() has returned, which
\* happens only when every goroutine has finished, and a goroutine that is
\* about to send finds room in the channel.
BarrierHolds ==
    /\ launched <= Len(localFiles)
    /\ \A w \in 1..Len(localFiles) :
          /\ wstate[w] # "idle" <=> w <= launched
          /\ Cardinality(SendsOf(w)) = (IF wstate[w] \in {"sent", "done"} THEN 1 ELSE 0)
          /\ wstate[w] = "running" => Len(chan) < ChannelCapacity
    /\ wg = Cardinality({ w \in 1..Len(localFiles) : wstate[w] \in {"running", "sent"} })
    /\ pc \in {"launch", "wait"} =>
          /\ Len(chan) = Len(sendOrder)
          /\ offsetResults = <<>>
          /\ results = <<>>
          /\ ~chanClosed
    /\ pc \in {"collect", "detected", "detectFailed"} =>
          /\ chanClosed
          /\ Len(sendOrder) = Len(localFiles)
          /\ \A w \in 1..Len(localFiles) : wstate[w] = "done"

\* C12: detectOffsetsParallel is a fork-join barrier.  Exactly one goroutine
\* is started per local file and each sends exactly one result; no result is
\* collected and nothing is returned before every goroutine has finished; no
\* goroutine ever blocks on its send, because the channel has room for one
\* result per file; and the call always returns.
C12_ForkJoinBarrier == []BarrierHolds /\ <>DetectionReturned

\* C12 witness: three goroutines have all sent while the caller was still
\* waiting, the channel is full, and the caller has passed the barrier.
C12_Witness ==
    /\ pc = "collect"
    /\ Len(localFiles) = 3
    /\ Len(chan) = 3
    /\ Len(chan) = ChannelCapacity
    /\ wg = 0
    /\ \A w \in 1..3 : wstate[w] = "done" /\ Cardinality(SendsOf(w)) = 1

\* The sample data of local file i.
OriginalData(i) == localFiles[i].Data

\* The number of interleaved samples of silence file i is due.
SilenceLength(i) == fileOffsets[i].PaddingSamples * localFiles[i].Channels

\* C13: padding is non-destructive.  The sample data handed to the encoder
\* for a file is PaddingSamples * Channels zeros followed by the original
\* samples, unchanged and in order; PrependSilence(signal, 0) is the signal
\* and PrependSilence(signal, k) is k zeros followed by the signal.
C13_PaddingIsNonDestructive ==
    \A i \in 1..Len(written) :
        /\ Len(written[i]) = SilenceLength(i) + Len(OriginalData(i))
        /\ \A j \in 1..SilenceLength(i) : written[i][j] = 0
        /\ \A j \in 1..Len(OriginalData(i)) :
              written[i][SilenceLength(i) + j] = OriginalData(i)[j]
        /\ PrependSilence(OriginalData(i), 0) = OriginalData(i)
        /\ LET k == SilenceLength(i)
               p == PrependSilence(OriginalData(i), k)
           IN  /\ Len(p) = k + Len(OriginalData(i))
               /\ \A j \in 1..k : p[j] = 0
               /\ \A j \in 1..Len(OriginalData(i)) : p[k + j] = OriginalData(i)[j]

\* C13 witness: every file is written; an unpadded one went out as it was
\* and a two-channel one got twice its padding in zero samples.
C13_Witness ==
    /\ pc = "done"
    /\ \E i \in 1..Len(written) :
          fileOffsets[i].PaddingSamples = 0 /\ written[i] = OriginalData(i)
    /\ \E i \in 1..Len(written) :
          /\ localFiles[i].Channels = 2
          /\ fileOffsets[i].PaddingSamples > 0
          /\ Len(written[i]) = Len(OriginalData(i)) + 2 * fileOffsets[i].PaddingSamples
          /\ OriginalData(i)[1] # 0
          /\ written[i][2 * fileOffsets[i].PaddingSamples + 1] = OriginalData(i)[1]

\* k zeros followed by the signal a: the delayed copy zeros(k) + a.
DelayedCopy(a, k) == [i \in 1..k |-> 0] \o a

\* The local signal of a direct call of DetectOffset.
LocalSignal == localFiles[1].Data

\* A direct call of DetectOffset has returned a result.
Detected == pc = "detectedOne"

\* Some sample of the signal is not zero.
NonZero(a) == \E i \in 1..Len(a) : a[i] # 0

NormalizedEnergy(a) == SeqSum([i \in 1..Len(a) |-> normalize(a)[i] * normalize(a)[i]])

\* C15: for every non-empty signal A, constant ones included,
\* DetectOffset(A, A, rate, 1) returns OffsetSamples = 0: the correlation of
\* normalized A with itself peaks at index 0.  The peak value is the energy
\* of the normalized signal; for a non-constant A that is the length, so
\* the confidence, the peak value divided by the length, is 1.
C15_SelfCorrelationPeaksAtZero ==
    Detected /\ cfgDownsampleFactor = 1 /\ mixed = LocalSignal =>
        /\ detection.PeakIndex = 0
        /\ detection.OffsetSamples = 0
        /\ detection.PeakValue = NormalizedEnergy(LocalSignal)
        /\ detection.MixedScaleSq = detection.LocalScaleSq
        /\ detection.LocalLen = Len(LocalSignal)
        /\ ScaledVariance(LocalSignal) > 0 =>
              detection.PeakValue = detection.LocalScaleSq * detection.LocalLen

\* C15 witness: a constant signal of three samples, whose correlation is
\* zero at every index, and a non-constant one with confidence 1.
C15_Witness ==
    /\ Detected
    /\ cfgDownsampleFactor = 1
    /\ mixed = LocalSignal
    /\ detection.OffsetSamples = 0
    /\ \/ /\ LocalSignal = <<1, 1, 1>>
          /\ detection.PeakValue = 0
       \/ /\ LocalSignal = <<1, 0, -1, 1>>
          /\ detection.PeakValue = detection.LocalScaleSq * 4

\* The FileOffsets as CalculatePadding built them from the coarse results,
\* no field changed since.
FileOffsetsUntouched ==
    /\ Len(fileOffsets) = Len(results)
    /\ \A i \in 1..Len(results) :
          fileOffsets[i] =
              [Path |-> filePaths[i],
               OffsetSamples |-> results[i].OffsetSamples,
               FineAdjustmentSamples |-> 0,
               FinalOffsetSamples |-> 0,
               PaddingSamples |-> results[i].OffsetSamples - SetMin(CoarseOffsets),
               IsEarliest |-> (results[i].OffsetSamples = SetMin(CoarseOffsets)),
               FinetuneResult |-> NilFinetuneResult]

\* FinetuneOffsets has been entered: its first step is taken.
FinetuneEntered == pc \in {"overlap", "segment", "loop", "returned", "panicked"}

\* C16 as stated: called with localFiles and fileOffsets of different
\* lengths, FinetuneOffsets returns an error before it touches a FileOffset;
\* it does not crash and does not process a part of the tracks.
C16_MismatchRejected ==
    (Len(localFiles) # Len(fileOffsets) /\ FinetuneEntered) =>
        /\ pc = "returned"
        /\ err # ""
        /\ ret = "nil"
        /\ FileOffsetsUntouched

\* C17 as stated: every FileOffset satisfies FinalOffsetSamples =
\* OffsetSamples + FineAdjustmentSamples as soon as CalculatePadding has
\* returned, before any refinement has run.
C17_FinalSetByCalculatePadding ==
    pc \in {"padded", "done"} =>
        \A i \in Tracks :
            fileOffsets[i].FinalOffsetSamples =
                fileOffsets[i].OffsetSamples + fileOffsets[i].FineAdjustmentSamples

\* The length of a signal after downsample by the configured factor.
CoarseLen(a) == Len(downsample(a, cfgDownsampleFactor))

\* C18: for non-empty inputs and a factor >= 1, the OffsetSamples of
\* DetectOffset is peakIndex * downsampleFactor with 0 <= peakIndex <=
\* len(downsampled reference) + len(downsampled local) - 2, so it is never
\* negative and is a multiple of the factor.  Hence in FinetuneOffsets every
\* raw fine offset is >= 0, and every fine-tuned track has
\* FineAdjustmentSamples <= 0 and FinalOffsetSamples <= OffsetSamples.
C18_OffsetsAreNonNegative ==
    /\ Detected =>
          /\ detection.OffsetSamples = detection.PeakIndex * cfgDownsampleFactor
          /\ detection.PeakIndex >= 0
          /\ detection.PeakIndex <= CoarseLen(mixed) + CoarseLen(LocalSignal) - 2
          /\ detection.OffsetSamples >= 0
          /\ detection.OffsetSamples % cfgDownsampleFactor = 0
    /\ \A i \in 1..Len(fineResults) :
          FineTuned(i) =>
              /\ fineResults[i].OffsetSamples >= 0
              /\ fileOffsets[i].FineAdjustmentSamples <= 0
              /\ fileOffsets[i].FinalOffsetSamples <= fileOffsets[i].OffsetSamples

\* C18 witness: with factor 2 the peak of the three-entry sequence of two
\* downsampled signals of two samples is at index 1, and the offset is 2.
C18_Witness ==
    /\ Detected
    /\ cfgDownsampleFactor = 2
    /\ CoarseLen(mixed) = 2
    /\ CoarseLen(LocalSignal) = 2
    /\ detection.PeakIndex = 1
    /\ detection.OffsetSamples = 2

\* The bounds of the selected segment in the samples of track i (lines
\* 184-185).
LocalSegStart(i) == segStart - fileOffsets[i].OffsetSamples

LocalSegEnd(i) == segEnd - fileOffsets[i].OffsetSamples

\* The skip reasons of the bounds check and of the failed extraction.
BoundsReasons == {"segment out of bounds", "extraction failed"}

\* C19: whenever FinetuneOffsets has selected a segment, for every track the
\* mapped bounds satisfy segStart - coarse >= 0 and segEnd - coarse <= mono
\* length, the segment being inside the intersection of the tracks'
\* intervals; so no track is skipped as out of bounds or for a failed
\* extraction: the correlation is run for every track the loop has passed.
C19_SegmentInsideEveryTrack ==
    SegmentSelected =>
        /\ segStart < segEnd
        /\ \A i \in 1..Len(localFiles) :
              /\ LocalSegStart(i) >= 0
              /\ LocalSegEnd(i) <= Len(LocalMono(i))
              /\ fileOffsets[i].FinetuneResult.SkipReason \notin BoundsReasons
        /\ \A i \in 1..Len(fineResults) : fineResults[i].called

\* C19 witness: three tracks were all fine-tuned on a segment that starts
\* where one track starts and ends where another track ends.
C19_Witness ==
    /\ Recalculated
    /\ Len(localFiles) = 3
    /\ \A i \in 1..3 : FineTuned(i) /\ ~fileOffsets[i].FinetuneResult.Skipped
    /\ \E i \in 1..3 : LocalSegStart(i) = 0 /\ LocalSegEnd(i) < Len(LocalMono(i))
    /\ \E i \in 1..3 : LocalSegEnd(i) = Len(LocalMono(i)) /\ LocalSegStart(i) > 0

\* The selected segment lies in the index range of the reference.
SegmentInReference == segStart >= 0 /\ segEnd <= Len(mixed)

\* FinetuneOffsets has returned an error.
ReturnedError == Returned /\ err # ""

\* C20: when the overlap has the minimum length but the selected segment is
\* not contained in [0, len(reference)], FinetuneOffsets goes no further
\* than the extraction of the reference segment and returns an error for the
\* whole call; and on every error return of FinetuneOffsets (no overlap, or
\* the reference segment cannot be extracted) it returns no FileOffsets and
\* every field of every FileOffset is as CalculatePadding left it.
C20_ErrorReturnsTouchNothing ==
    /\ (SegmentSelected /\ ~SegmentInReference) =>
          /\ pc \in {"segment", "returned"}
          /\ Returned => err = "failed to extract mixed segment"
    /\ ReturnedError =>
          /\ ret = "nil"
          /\ err \in {"failed to find overlapping region",
                       "failed to extract mixed segment"}
          /\ FileOffsetsUntouched
          /\ fineResults = <<>>

\* C20 witness: two tracks with different coarse offsets overlap long
\* enough, the segment ends past the reference, and the call has returned
\* the extraction error.
C20_Witness ==
    /\ ReturnedError
    /\ err = "failed to extract mixed segment"
    /\ segEnd > Len(mixed)
    /\ segEnd - segStart >= minSec * sampleRate
    /\ Len(fileOffsets) >= 2
    /\ \E i \in Tracks : fileOffsets[i].PaddingSamples > 0
    /\ FileOffsetsUntouched

====
